---- MODULE Spec2Model ----
(***************************************************************************)
(* A state-machine model of the swap services of AeroSwap.                 *)
(*                                                                         *)
(* HybridHTLC (src/src/services/htlc.js): the in-memory registry           *)
(* activeSwaps and the operations createHTLCParams, deployHTLC, claimHTLC  *)
(* and monitorSwap.  deployHTLC and claimHTLC are async: each runs         *)
(* synchronously up to `await this.simulateTransaction(tx, signer)` and    *)
(* resumes after the simulated network delay, so each is two actions, and  *)
(* several calls may be suspended at once.                                 *)
(*                                                                         *)
(* Time: `now` counts whole seconds; Date.now() is now * MsPerSec, so the  *)
(* modelled calls and resumptions happen on whole seconds.                 *)
(* The unused map this.contracts is left out.                              *)
(***************************************************************************)
EXTENDS Integers, Sequences, FiniteSets, Bags, TLC

\* ---------------------------------------------------------------- bounds
MaxSwaps == 1
MaxInFlight == 2
MaxTime == 3

\* ------------------------------------------------------ program constants
SimDelayMs == 1000
MsPerSec == 1000

\* ----------------------------------------------------------------- inputs
SwapIds == 1..MaxSwaps
SupportedTypes == {"evm", "bitcoin", "aptos", "solana"}
ChainTypes == SupportedTypes \cup {"cosmos"}
ChainIds == {1}
Chains == [id : ChainIds, type : ChainTypes]
Amounts == {"1000000"}
\* a well-formed 20-byte address, and the empty string of a wallet that is
\* not connected
Recipients == {"0xrecipient", ""}
TimelockChoices == {0, 2}
\* the byte strings (BytesLike values) a caller may present as a secret
Secrets == 1..(MaxSwaps + 1)

VARIABLES activeSwaps, inflight, now, last

vars == <<activeSwaps, inflight, now, last>>

\* the state of MEVShield
VARIABLES pendingCommits, currentBatch, running, clock, shieldLast

shieldVars == <<pendingCommits, currentBatch, running, clock, shieldLast>>

\* the state of PartialFillEngine
VARIABLES partialOrders, liquidityProviders, fillHistory, matching, fillClock, fillLast

fillVars == <<partialOrders, liquidityProviders, fillHistory, matching, fillClock, fillLast>>

\* what an operation of HybridHTLC, of MEVShield and of PartialFillEngine
\* cannot touch
htlcFrame == <<shieldVars, fillVars>>
shieldFrame == <<vars, fillVars>>
fillFrame == <<vars, shieldVars>>

\* ------------------------------------------------------------------ clock
DateNow == now * MsPerSec
UnixNow == DateNow \div MsPerSec

\* ----------------------------------------------------------------- digests
\* A digest is its representation, its algorithm and its pre-image: two
\* digests are equal only if all three agree.
keccak256(bytes) == <<"hex", "keccak256", bytes>>
sha256(bytes) == <<"buffer", "sha256", bytes>>

NoHash == <<>>

\* crypto.randomBytes(32): the n-th draw is a value no earlier draw gave
randomBytes(n) == n

\* ethers.getBytes accepts hex strings and byte arrays
IsBytesLike(value) == value # ""

\* --------------------------------------------------------------- records
\* what the last completed call gave its caller: "none", or the message of
\* the error it threw (with the secret it was given, for a failed claim)
Outcome(op, id, secret, error) ==
    [op |-> op, id |-> id, secret |-> secret, error |-> error]

\* the keys of the activeSwaps map
Stored == DOMAIN activeSwaps

\* an async call suspended at its await: its arguments and locals
Suspended(op, id, secret, tx) ==
    [op |-> op, id |-> id, secret |-> secret, tx |-> tx, at |-> DateNow]

Calls == BagToSet(inflight)

\* ------------------------------------------------------ generateHashLock
generateHashLock(chainType, secretBytes) ==
    CASE chainType = "evm" ->
           [secret |-> secretBytes, hash |-> keccak256(secretBytes), algorithm |-> "ECDSA"]
      [] chainType = "bitcoin" ->
           [secret |-> secretBytes, hash |-> sha256(secretBytes), algorithm |-> "ECDSA"]
      [] chainType \in {"aptos", "solana"} ->
           [secret |-> secretBytes, hash |-> sha256(secretBytes), algorithm |-> "EdDSA"]

generateSwapId == Len(activeSwaps) + 1

\* ---------------------------------------------------- simulateTransaction
\* resolves SimDelayMs after the call, with a receipt whose hash digests the
\* transaction and the time of resumption; it has no failing path
simulateTransaction(tx) ==
    [hash |-> keccak256(<<tx, DateNow>>), status |-> 1]

Resumable(k) == DateNow >= k.at + SimDelayMs

\* ------------------------------------------------------ createHTLCParams
CreateHTLCParams(fromChain, toChain, amount, recipient, timelock) ==
    /\ Len(activeSwaps) < MaxSwaps
    /\ IF fromChain.type \notin SupportedTypes
       THEN /\ last' = Outcome("create", 0, 0, "Unsupported chain type")
            /\ UNCHANGED activeSwaps
       ELSE LET hashLock == generateHashLock(fromChain.type, randomBytes(Len(activeSwaps) + 1))
                swapId == generateSwapId
                htlcParams ==
                    [swapId |-> swapId,
                     fromChain |-> fromChain.id,
                     toChain |-> toChain.id,
                     amount |-> amount,
                     recipient |-> recipient,
                     hashLock |-> hashLock.hash,
                     secret |-> hashLock.secret,
                     timelock |-> UnixNow + timelock,
                     algorithm |-> hashLock.algorithm,
                     status |-> "pending",
                     txHash |-> NoHash,
                     claimTxHash |-> NoHash]
            IN /\ activeSwaps' = Append(activeSwaps, htlcParams)
               /\ last' = Outcome("create", swapId, 0, "none")
    /\ UNCHANGED <<inflight, now>>
    /\ UNCHANGED htlcFrame

\* ------------------------------------------------------------ deployHTLC
\* the lock transaction (lines 88-95): ethers.zeroPadValue throws on a value
\* that is not BytesLike
\* the transaction built without encoding the recipient: nothing throws
DeployTxBuilds_Unchecked(params) == TRUE

DeployTxBuilds(params) == IsBytesLike(params.recipient)

DeployTx(params) ==
    <<"createSwap", params.amount, params.hashLock, params.recipient, params.timelock>>

\* lines 75-102: up to the await; params is the record createHTLCParams
\* returned, which is the stored one
DeployHTLC(swapId) ==
    /\ swapId \in Stored
    /\ LET params == activeSwaps[swapId]
       IN IF ~DeployTxBuilds(params)
          THEN /\ last' = Outcome("deploy", swapId, 0, "invalid BytesLike value")
               /\ UNCHANGED inflight
          ELSE /\ BagCardinality(inflight) < MaxInFlight
               /\ inflight' = inflight (+) SetToBag({Suspended("deploy", swapId, 0, DeployTx(params))})
               /\ UNCHANGED last
    /\ UNCHANGED <<activeSwaps, now>>
    /\ UNCHANGED htlcFrame

\* lines 102-107: after the await
DeployResume(k) ==
    /\ k.op = "deploy"
    /\ Resumable(k)
    /\ LET receipt == simulateTransaction(k.tx)
       IN activeSwaps' = [activeSwaps EXCEPT ![k.id].txHash = receipt.hash,
                                 ![k.id].status = "deployed"]
    /\ last' = Outcome("deploy", k.id, 0, "none")
    /\ inflight' = inflight (-) SetToBag({k})
    /\ UNCHANGED now
    /\ UNCHANGED htlcFrame

\* ------------------------------------------------------------- claimHTLC
\* the secret check left out: every secret passes
SecretVerifies_Skipped(swap, secret) == TRUE

\* lines 123-126
SecretVerifies(swap, secret) == keccak256(secret) = swap.hashLock

ClaimTx(secret) == <<"claimSwap", secret>>

\* lines 117-138: up to the await
ClaimHTLC(swapId, secret) ==
    /\ IF swapId \notin Stored
       THEN /\ last' = Outcome("claim", swapId, secret, "Swap not found")
            /\ UNCHANGED inflight
       ELSE IF ~SecretVerifies(activeSwaps[swapId], secret)
       THEN /\ last' = Outcome("claim", swapId, secret, "Invalid secret")
            /\ UNCHANGED inflight
       ELSE /\ BagCardinality(inflight) < MaxInFlight
            /\ inflight' = inflight (+) SetToBag({Suspended("claim", swapId, secret, ClaimTx(secret))})
            /\ UNCHANGED last
    /\ UNCHANGED <<activeSwaps, now>>
    /\ UNCHANGED htlcFrame

\* lines 138-143: after the await
ClaimResume(k) ==
    /\ k.op = "claim"
    /\ Resumable(k)
    /\ LET receipt == simulateTransaction(k.tx)
       IN activeSwaps' = [activeSwaps EXCEPT ![k.id].status = "claimed",
                                 ![k.id].claimTxHash = receipt.hash]
    /\ last' = Outcome("claim", k.id, k.secret, "none")
    /\ inflight' = inflight (-) SetToBag({k})
    /\ UNCHANGED now
    /\ UNCHANGED htlcFrame

\* ----------------------------------------------------------- monitorSwap
monitorSwap(swap) ==
    [status |-> swap.status,
     timeRemaining |-> swap.timelock - UnixNow,
     canClaim |-> swap.status = "deployed",
     canRefund |-> swap.timelock < UnixNow]

MonitorSwap(swapId) ==
    /\ swapId \in Stored
    /\ last' = Outcome("monitor", swapId, 0, "none")
    /\ UNCHANGED <<activeSwaps, inflight, now>>
    /\ UNCHANGED htlcFrame

\* ------------------------------------------------ getActiveSwaps, getSwap
\* lines 198-207: both hand out the stored records themselves
getActiveSwaps == {activeSwaps[id] : id \in Stored}

getSwap(swapId) == activeSwaps[swapId]

\* the fields of a record or view that a reader of it can read
Readable(view) == DOMAIN view

\* ----------------------------------------------------------------- clock
Tick ==
    /\ now < MaxTime
    /\ now' = now + 1
    /\ UNCHANGED <<activeSwaps, inflight, last>>
    /\ UNCHANGED htlcFrame

\* ---------------------------------------------------------------- refund
\* HybridHTLC has no refund operation.  These two actions are the refund of
\* section 4.1 of the specification (TimelockNotExpiredError while
\* now <= timelock, InvalidStateError unless deployed, the transition guarded
\* by a compare-and-set on status); they are part of SpecRefund only.
RefundTx == <<"refundSwap">>

RefundHTLC(swapId) ==
    /\ swapId \in Stored
    /\ IF UnixNow <= activeSwaps[swapId].timelock
       THEN /\ last' = Outcome("refund", swapId, 0, "TimelockNotExpiredError")
            /\ UNCHANGED inflight
       ELSE IF activeSwaps[swapId].status # "deployed"
       THEN /\ last' = Outcome("refund", swapId, 0, "InvalidStateError")
            /\ UNCHANGED inflight
       ELSE /\ BagCardinality(inflight) < MaxInFlight
            /\ inflight' = inflight (+) SetToBag({Suspended("refund", swapId, 0, RefundTx)})
            /\ UNCHANGED last
    /\ UNCHANGED <<activeSwaps, now>>
    /\ UNCHANGED htlcFrame

RefundResume(k) ==
    /\ k.op = "refund"
    /\ Resumable(k)
    /\ IF activeSwaps[k.id].status = "deployed"
       THEN /\ activeSwaps' = [activeSwaps EXCEPT ![k.id].status = "refunded"]
            /\ last' = Outcome("refund", k.id, 0, "none")
       ELSE /\ last' = Outcome("refund", k.id, 0, "InvalidStateError")
            /\ UNCHANGED activeSwaps
    /\ inflight' = inflight (-) SetToBag({k})
    /\ UNCHANGED now
    /\ UNCHANGED htlcFrame

\* ------------------------------------------------------------------ spec
Init ==
    /\ activeSwaps = <<>>
    /\ inflight = EmptyBag
    /\ now = 0
    /\ last = Outcome("none", 0, 0, "none")

Next ==
    \/ \E f \in Chains, t \in Chains, a \in Amounts, r \in Recipients, tl \in TimelockChoices :
          CreateHTLCParams(f, t, a, r, tl)
    \/ \E id \in SwapIds : DeployHTLC(id)
    \/ \E k \in Calls : DeployResume(k)
    \/ \E id \in SwapIds, s \in Secrets : ClaimHTLC(id, s)
    \/ \E k \in Calls : ClaimResume(k)
    \/ \E id \in SwapIds : MonitorSwap(id)
    \/ Tick

\* the coordinator with the specification's refund added to it
NextRefund ==
    \/ Next
    \/ \E id \in SwapIds : RefundHTLC(id)
    \/ \E k \in Calls : RefundResume(k)

\* ================================================================ MEVShield
\* src/unnamed/part_004: the commit-reveal order shield.  pendingCommits is
\* the Map of commit records in insertion order (an order's id is its
\* position), currentBatch the array of revealed records (held by reference,
\* so by id), running the processBatch calls suspended at the execution delay
\* of an order.  clock is Date.now() in milliseconds.  The unused orderBook
\* and the values the operations only return or log are left out.

\* ----------------------------------------------------------------- bounds
MaxOrders == 2
MaxBatch == 2
MaxPasses == 1
MaxElapse == 2

\* ------------------------------------------------------ program constants
ExecDelayMs == 500
RevealWindowMs == 30000

\* ----------------------------------------------------------------- inputs
Tokens == {"0xTokenA"}
AmountsIn == {3}
MinAmountsOut == {2, 3}
Deadlines == {3600}
Users == {"0xuser"}
OrderParams ==
    [tokenIn : Tokens, tokenOut : Tokens, amountIn : AmountsIn,
     minAmountOut : MinAmountsOut, deadline : Deadlines, user : Users]
\* the 32-byte values a caller may present as a nonce
Nonces == 1..(MaxOrders + 1)
\* what reading a property an object does not have gives, as
\* commitment.nonce does in the callers of revealOrder
undefined == 0
\* the bytes32 coder of lines 69-70 takes 32-byte values only
IsBytes32(value) == value \in Nonces
\* Math.random() * 0.999 + 0.001 is a price in [0.001, 1): the output is
\* below the input
AmountsOut(amountIn) == 1..(amountIn - 1)

\* lines 21-33 and 68-80: the digest of the ABI encoding of the five order
\* fields and the nonce (orderParams.user is not encoded)
Commitment(orderParams, nonce) ==
    keccak256(<<orderParams.tokenIn, orderParams.tokenOut, orderParams.amountIn,
                orderParams.minAmountOut, orderParams.deadline, nonce>>)

\* a commitment no commit has returned
UnknownCommitment == keccak256(<<>>)

generateOrderId == Len(pendingCommits) + 1

OrderIds == DOMAIN pendingCommits

\* the commitments a caller may present: those handed out, and another
Commitments == {pendingCommits[id].commitment : id \in OrderIds} \cup {UnknownCommitment}

\* this.pendingCommits.get(commitment): the id of the record, 0 if none
Lookup(commitment) ==
    IF \E id \in OrderIds : pendingCommits[id].commitment = commitment
    THEN CHOOSE id \in OrderIds : pendingCommits[id].commitment = commitment
    ELSE 0

NoResult == [amountOut |-> 0]

\* what the last commit or reveal gave its caller: "none", or the message of
\* the error it threw
ShieldOutcome(op, id, error) == [op |-> op, id |-> id, error |-> error]

\* the number of delays it takes the clock to show c
Elapses(c) == (c \div RevealWindowMs) + ((c % RevealWindowMs) \div ExecDelayMs)

\* ------------------------------------------------------- createCommitment
\* lines 19-55; the caller is returned id, commitment and revealDeadline
RevealDeadline(order) == order.timestamp + RevealWindowMs

\* lines 50-54: the object createCommitment returns for the record it stored
CommitReturn(commitData) ==
    [orderId |-> commitData.id,
     commitment |-> commitData.commitment,
     revealDeadline |-> RevealDeadline(commitData)]

\* object[property] in JavaScript
Get(object, property) ==
    IF property \in DOMAIN object THEN object[property] ELSE undefined

CreateCommitment(orderParams) ==
    /\ Len(pendingCommits) < MaxOrders
    /\ LET nonce == randomBytes(Len(pendingCommits) + 1)
           commitData ==
               [id |-> generateOrderId,
                commitment |-> Commitment(orderParams, nonce),
                nonce |-> nonce,
                orderParams |-> orderParams,
                timestamp |-> clock,
                status |-> "committed",
                user |-> orderParams.user,
                executionResult |-> NoResult,
                error |-> "none"]
       IN /\ pendingCommits' = Append(pendingCommits, commitData)
          /\ shieldLast' = ShieldOutcome("commit", commitData.id, "none")
    /\ UNCHANGED <<currentBatch, running, clock>>
    /\ UNCHANGED shieldFrame

\* ------------------------------------------------------------ revealOrder
\* the comparison of line 82 left out: every reveal of a known commitment
\* passes
CommitmentMatches_Skipped(commitment, orderParams, nonce) == TRUE

\* lines 68-84
CommitmentMatches(commitment, orderParams, nonce) ==
    Commitment(orderParams, nonce) = commitment

\* lines 60-102: the function is async but awaits nothing
RevealOrder(commitment, orderParams, nonce) ==
    /\ LET id == Lookup(commitment)
       IN IF id = 0
          THEN /\ shieldLast' = ShieldOutcome("reveal", 0, "Commitment not found")
               /\ UNCHANGED <<pendingCommits, currentBatch>>
          ELSE IF ~IsBytes32(nonce)
          THEN /\ shieldLast' = ShieldOutcome("reveal", id, "invalid BytesLike value")
               /\ UNCHANGED <<pendingCommits, currentBatch>>
          ELSE IF ~CommitmentMatches(commitment, orderParams, nonce)
          THEN /\ shieldLast' = ShieldOutcome("reveal", id, "Invalid reveal - commitment mismatch")
               /\ UNCHANGED <<pendingCommits, currentBatch>>
          ELSE /\ Len(currentBatch) < MaxBatch
               /\ pendingCommits' = [pendingCommits EXCEPT ![id].status = "revealed"]
               /\ currentBatch' = Append(currentBatch, id)
               /\ shieldLast' = ShieldOutcome("reveal", id, "none")
    /\ UNCHANGED <<running, clock>>
    /\ UNCHANGED shieldFrame

\* ----------------------------------------------------------- processBatch
\* the place a stable ascending sort by commit time gives element i of batch
Rank(batch, i) ==
    Cardinality({j \in DOMAIN batch :
                    \/ pendingCommits[batch[j]].timestamp < pendingCommits[batch[i]].timestamp
                    \/ /\ pendingCommits[batch[j]].timestamp = pendingCommits[batch[i]].timestamp
                       /\ j <= i})

\* the batch taken in the order of its reveals
sortedOrders_Unsorted(batch) == batch

\* line 113: a sorted copy of the batch
sortedOrders(batch) ==
    [k \in DOMAIN batch |-> batch[CHOOSE i \in DOMAIN batch : Rank(batch, i) = k]]

\* a processBatch call suspended in simulatePrivateExecution (line 186) for
\* order orders[i] since time at
Pass(orders, i) == [orders |-> orders, i |-> i, at |-> clock]

Passes == BagToSet(running)

\* lines 107-120 and 181-186: up to the first await that yields
ProcessBatch ==
    /\ IF Len(currentBatch) = 0
       THEN UNCHANGED running
       ELSE /\ BagCardinality(running) < MaxPasses
            /\ running' = running (+) SetToBag({Pass(sortedOrders(currentBatch), 1)})
    /\ UNCHANGED <<pendingCommits, currentBatch, clock, shieldLast>>
    /\ UNCHANGED shieldFrame

\* lines 156-175: the order as executeProtectedOrder leaves it for the price
\* calculateProtectedPrice drew
executeProtectedOrder(order, amountOut) ==
    IF amountOut < order.orderParams.minAmountOut
    THEN [order EXCEPT !.status = "failed", !.error = "Slippage protection triggered"]
    ELSE [order EXCEPT !.status = "executed", !.executionResult = [amountOut |-> amountOut]]

\* after the execution delay of order orders[i]: lines 156-175 and 121-136,
\* then the next iteration up to its await, or lines 140-143 after the last
ProcessBatchResume(p, amountOut) ==
    /\ clock >= p.at + ExecDelayMs
    /\ LET id == p.orders[p.i]
       IN /\ pendingCommits' =
                [pendingCommits EXCEPT ![id] = executeProtectedOrder(pendingCommits[id], amountOut)]
          /\ IF p.i < Len(p.orders)
             THEN /\ running' = (running (-) SetToBag({p})) (+) SetToBag({Pass(p.orders, p.i + 1)})
                  /\ UNCHANGED currentBatch
             ELSE /\ running' = running (-) SetToBag({p})
                  /\ currentBatch' = <<>>
    /\ UNCHANGED <<clock, shieldLast>>
    /\ UNCHANGED shieldFrame

\* ------------------------------------------------------------------ clock
Delays == {ExecDelayMs, RevealWindowMs}

Elapse(d) ==
    /\ Elapses(clock) < MaxElapse
    /\ clock' = clock + d
    /\ UNCHANGED <<pendingCommits, currentBatch, running, shieldLast>>
    /\ UNCHANGED shieldFrame

\* lines 9-14
InitShield ==
    /\ pendingCommits = <<>>
    /\ currentBatch = <<>>
    /\ running = EmptyBag
    /\ clock = 0
    /\ shieldLast = ShieldOutcome("none", 0, "none")

NextShield ==
    \/ \E o \in OrderParams : CreateCommitment(o)
    \/ \E c \in Commitments, o \in OrderParams, n \in Nonces \cup {undefined} : RevealOrder(c, o, n)
    \/ ProcessBatch
    \/ \E p \in Passes, out \in UNION {AmountsOut(a) : a \in AmountsIn} : ProcessBatchResume(p, out)
    \/ \E d \in Delays : Elapse(d)

\* ======================================================== PartialFillEngine
\* src/src/services/partialFill.js: partialOrders is the Map of orders in
\* insertion order, liquidityProviders the Map of providers, fillHistory the
\* Map of executed fills, matching the createPartialOrder and matchOrder
\* calls suspended at an await or waiting for their retry timer.  An order,
\* a provider and a fill are named by their position in their Map: the
\* generated ids are fresh strings nothing else reads.  fillClock is
\* Date.now() in milliseconds.  lp.totalVolume, which nothing reads, is kept
\* as the list of the amounts line 163 has added to it.  fillLast is how the
\* last call of createPartialOrder or of attemptFill ended: "none" or the
\* message of the error for the first, the message logged at line 113, 150
\* or 165 for the second.

\* ----------------------------------------------------------------- bounds
MaxFillOrders == 1
MaxProviders == 2
MaxFills == 2
MaxFillElapse == 3

\* ------------------------------------------------------ program constants
SwapDelayMs == 1000
RetryDelayMs == 10000
MinFillEther == 10
DefaultSlippage == 1
StartReputation == 100
\* amounts are counted in tenths of an ether
UnitsPerEther == 10

\* ---------------------------------------------------------------- amounts
\* A JavaScript value holding an amount: a BigInt, a decimal string (what
\* the callers of createPartialOrder pass) or a Number.
BigInt(n) == [t |-> "bigint", n |-> n]
String(n) == [t |-> "string", n |-> n]
Number(n) == [t |-> "number", n |-> n]

\* a < b converts a string operand to the type of the other
Less(a, b) == a.n < b.n

\* a - b throws a TypeError when exactly one operand is a BigInt
MinusThrows(a, b) == (a.t = "bigint") # (b.t = "bigint")

Minus(a, b) == IF a.t = "bigint" THEN BigInt(a.n - b.n) ELSE Number(a.n - b.n)

parseEther(ether) == BigInt(ether * UnitsPerEther)

\* line 13
minFillAmount == parseEther(MinFillEther)

\* ----------------------------------------------------------------- inputs
FillTokens == {"0xin", "0xout"}
FillAmountsIn == {BigInt(250), String(250)}
FillDeadlines == {1}
FillOrderParams ==
    [tokenIn : {"0xin"}, tokenOut : {"0xout"}, amountIn : FillAmountsIn,
     maxSlippage : {0, 1}, deadline : FillDeadlines]
Providers == [supportedTokens : {FillTokens, {"0xin"}}, maxFillSize : {5, 15, 30}]
\* what the quote oracle answers: a rejection, or dstAmount per unit of
\* srcAmount
Rates == {1, 2}
Answers == {[ok |-> FALSE, rate |-> 0]} \cup {[ok |-> TRUE, rate |-> r] : r \in Rates}

FillOrderIds == DOMAIN partialOrders

ProviderIds == DOMAIN liquidityProviders

UnixFill == fillClock \div MsPerSec

\* a suspended call: its operation, its order, its snapshot of providers,
\* its place in the loop and its other locals
FillCall(op, orderId, lps, j, local) ==
    [op |-> op, orderId |-> orderId, lps |-> lps, j |-> j, local |-> local, at |-> fillClock]

FillCalls == BagToSet(matching)

Creating == {k \in FillCalls : k.op = "create"}

\* ----------------------------------------------- registerLiquidityProvider
\* lines 74-93
RegisterLiquidityProvider(provider) ==
    /\ Len(liquidityProviders) < MaxProviders
    /\ liquidityProviders' = Append(liquidityProviders,
           [id |-> Len(liquidityProviders) + 1,
            tokens |-> provider.supportedTokens,
            maxFillSize |-> provider.maxFillSize,
            reputation |-> StartReputation,
            totalFills |-> 0,
            totalVolume |-> <<>>,
            isActive |-> TRUE])
    /\ UNCHANGED <<partialOrders, fillHistory, matching, fillClock, fillLast>>
    /\ UNCHANGED fillFrame

\* ------------------------------------------------------- findSuitableLPs
\* lines 217-218, times ten
Score(lp) == lp.reputation * 7 + lp.totalFills * 3

\* lines 203-213: the ids of the active providers of both tokens, in
\* insertion order
Suitable(order) ==
    SelectSeq([i \in ProviderIds |-> i],
              LAMBDA i : /\ liquidityProviders[i].isActive
                         /\ order.tokenIn \in liquidityProviders[i].tokens
                         /\ order.tokenOut \in liquidityProviders[i].tokens)

\* the place a stable descending sort by score gives element i of lps
ScoreRank(lps, i) ==
    Cardinality({j \in DOMAIN lps :
                    \/ Score(liquidityProviders[lps[j]]) > Score(liquidityProviders[lps[i]])
                    \/ /\ Score(liquidityProviders[lps[j]]) = Score(liquidityProviders[lps[i]])
                       /\ j <= i})

findSuitableLPs(order) ==
    LET lps == Suitable(order)
    IN [k \in DOMAIN lps |-> lps[CHOOSE i \in DOMAIN lps : ScoreRank(lps, i) = k]]

\* ------------------------------------------------------ calculateFillSize
\* the provider's maxFillSize taken as the fill size
calculateFillSize_Uncapped(order, lp) == parseEther(lp.maxFillSize)

\* lines 226-244
calculateFillSize(order, lp) ==
    LET maxLPFill == parseEther(lp.maxFillSize)
        remainingAmount == order.remainingAmountIn
        smaller == IF Less(maxLPFill, remainingAmount) THEN maxLPFill ELSE remainingAmount
        raised == IF Less(smaller, minFillAmount) THEN minFillAmount ELSE smaller
    IN IF Less(remainingAmount, raised) THEN remainingAmount ELSE raised

\* the test of line 149 taken to fail of every quote
PriceImpactExceeds_Never(expectedPrice, rate, maxSlippage) == FALSE

\* lines 249-253 and 149: priceImpact > maxSlippage, the division by
\* expectedPrice multiplied out
PriceImpactExceeds(expectedPrice, rate, maxSlippage) ==
    (IF rate > expectedPrice THEN rate - expectedPrice ELSE expectedPrice - rate) * 100
        > maxSlippage * expectedPrice

\* -------------------------------------------------------------- matchOrder
\* the test of lines 108 and 118 taken to hold of every order
Filled_Always(order) == TRUE

\* line 108 and 118: order.remainingAmountIn <= this.minFillAmount
Filled(order) == ~Less(minFillAmount, order.remainingAmountIn)

\* lines 107-111 and 132-134: the first provider from place j on for which
\* attemptFill goes on to ask for a quote, Len(lps) + 1 if there is none
RECURSIVE NextAttempt(_, _, _)
NextAttempt(order, lps, j) ==
    IF j > Len(lps) THEN j
    ELSE IF Less(calculateFillSize(order, liquidityProviders[lps[j]]), minFillAmount)
    THEN NextAttempt(order, lps, j + 1)
    ELSE j

\* lines 107-124: the loop of matchOrder on order orderId of orders, from
\* place j of lps up to its next suspension: the await of a quote (line
\* 137), the retry timer (line 123), or the end as completed (line 119);
\* others are the other suspended calls
MatchLoop(orders, orderId, lps, j, others) ==
    LET order == orders[orderId]
        next == NextAttempt(order, lps, j)
    IN IF Filled(order)
       THEN /\ partialOrders' = [orders EXCEPT ![orderId].status = "completed"]
            /\ matching' = others
       ELSE /\ partialOrders' = orders
            /\ matching' = others (+) SetToBag({
                  IF next > Len(lps)
                  THEN FillCall("retry", orderId, <<>>, 0, 0)
                  ELSE FillCall("quote", orderId, lps, next,
                                calculateFillSize(order, liquidityProviders[lps[next]]))})

\* lines 98-105, then the loop
matchOrder(orders, orderId, others) ==
    IF orders[orderId].status # "open"
    THEN partialOrders' = orders /\ matching' = others
    ELSE MatchLoop(orders, orderId, findSuitableLPs(orders[orderId]), 1, others)

\* ------------------------------------------------------ createPartialOrder
\* lines 19-44: up to the await of the quote
CreatePartialOrder(orderParams) ==
    /\ Len(partialOrders) + Cardinality(Creating) < MaxFillOrders
    /\ LET order ==
               [tokenIn |-> orderParams.tokenIn,
                tokenOut |-> orderParams.tokenOut,
                totalAmountIn |-> orderParams.amountIn,
                remainingAmountIn |-> orderParams.amountIn,
                maxSlippage |-> IF orderParams.maxSlippage = 0
                                THEN DefaultSlippage ELSE orderParams.maxSlippage,
                deadline |-> orderParams.deadline,
                fills |-> <<>>,
                status |-> "open",
                createdAt |-> fillClock,
                currentPrice |-> 0]
       IN matching' = matching (+) SetToBag({FillCall("create", 0, <<>>, 0, order)})
    /\ UNCHANGED <<partialOrders, liquidityProviders, fillHistory, fillClock, fillLast>>
    /\ UNCHANGED fillFrame

\* lines 44-63, with the part of matchOrder that line 55 runs, or lines
\* 65-68 when the quote is refused
CreateResume(k, answer) ==
    /\ k.op = "create"
    /\ IF ~answer.ok
       THEN /\ fillLast' = "Quote failed"
            /\ matching' = matching (-) SetToBag({k})
            /\ UNCHANGED partialOrders
       ELSE /\ fillLast' = "none"
            /\ matchOrder(Append(partialOrders, [k.local EXCEPT !.currentPrice = answer.rate]),
                          Len(partialOrders) + 1, matching (-) SetToBag({k}))
    /\ UNCHANGED <<liquidityProviders, fillHistory, fillClock>>
    /\ UNCHANGED fillFrame

\* ------------------------------------------------------------ attemptFill
\* lines 173-186: the fill executeFill builds
Fill(orderId, lp, fillSize, rate) ==
    [orderId |-> orderId, providerId |-> lp, amountIn |-> fillSize,
     amountOut |-> fillSize.n * rate, timestamp |-> fillClock, status |-> "executed"]

\* lines 137-155 and 173-189: the quote has arrived; a refused quote is
\* caught at line 112 and a price impact above maxSlippage returns at line
\* 151, and the loop goes on with the next provider; otherwise the fill is
\* built and the call waits for the simulated execution
QuoteResume(k, answer) ==
    /\ k.op = "quote"
    /\ LET order == partialOrders[k.orderId]
       IN IF ~answer.ok \/ PriceImpactExceeds(order.currentPrice, answer.rate, order.maxSlippage)
          THEN /\ fillLast' = IF ~answer.ok THEN "Fill attempt failed" ELSE "Fill rejected"
               /\ MatchLoop(partialOrders, k.orderId, k.lps, k.j + 1, matching (-) SetToBag({k}))
          ELSE /\ matching' = (matching (-) SetToBag({k})) (+) SetToBag({
                     FillCall("execute", k.orderId, k.lps, k.j,
                              Fill(k.orderId, k.lps[k.j], k.local, answer.rate))})
               /\ UNCHANGED <<partialOrders, fillLast>>
    /\ UNCHANGED <<liquidityProviders, fillHistory, fillClock>>
    /\ UNCHANGED fillFrame

\* lines 189-194 and 158-167 after the execution delay: the fill is stored
\* and pushed, then the subtraction of line 159 either throws, which is
\* caught at line 112, or gives the new remainder and the provider's count
\* goes up; then the loop goes on with the next provider
ExecuteResume(k) ==
    /\ k.op = "execute"
    /\ fillClock >= k.at + SwapDelayMs
    /\ Len(fillHistory) < MaxFills
    /\ LET order == partialOrders[k.orderId]
           fill == k.local
           pushed == [partialOrders EXCEPT ![k.orderId].fills = Append(@, fill)]
       IN /\ fillHistory' = Append(fillHistory, fill)
          /\ IF MinusThrows(order.remainingAmountIn, fill.amountIn)
             THEN /\ UNCHANGED liquidityProviders
                  /\ fillLast' = "Fill attempt failed"
                  /\ MatchLoop(pushed, k.orderId, k.lps, k.j + 1, matching (-) SetToBag({k}))
             ELSE /\ liquidityProviders' =
                        [liquidityProviders EXCEPT ![fill.providerId].totalFills = @ + 1,
                                                   ![fill.providerId].totalVolume =
                                                        Append(@, fill.amountIn)]
                  /\ fillLast' = "Fill executed"
                  /\ MatchLoop([pushed EXCEPT ![k.orderId].remainingAmountIn =
                                                Minus(order.remainingAmountIn, fill.amountIn)],
                               k.orderId, k.lps, k.j + 1, matching (-) SetToBag({k}))
    /\ UNCHANGED fillClock
    /\ UNCHANGED fillFrame

\* line 123: the retry timer fires and runs matchOrder
RetryFire(k) ==
    /\ k.op = "retry"
    /\ fillClock >= k.at + RetryDelayMs
    /\ matchOrder(partialOrders, k.orderId, matching (-) SetToBag({k}))
    /\ UNCHANGED <<liquidityProviders, fillHistory, fillClock, fillLast>>
    /\ UNCHANGED fillFrame

\* --------------------------------------------------------- getOrderStatus
\* lines 271-291
getOrderStatus(orderId) ==
    [orderId |-> orderId,
     status |-> partialOrders[orderId].status,
     totalAmount |-> partialOrders[orderId].totalAmountIn,
     remainingAmount |-> partialOrders[orderId].remainingAmountIn,
     fillCount |-> Len(partialOrders[orderId].fills)]

\* ------------------------------------------------------------------ clock
FillDelays == {SwapDelayMs, RetryDelayMs}

\* the number of delays it takes the clock to show c
FillElapses(c) == (c \div RetryDelayMs) + ((c % RetryDelayMs) \div SwapDelayMs)

FillElapse(d) ==
    /\ FillElapses(fillClock) < MaxFillElapse
    /\ fillClock' = fillClock + d
    /\ UNCHANGED <<partialOrders, liquidityProviders, fillHistory, matching, fillLast>>
    /\ UNCHANGED fillFrame

\* lines 9-14
InitFill ==
    /\ partialOrders = <<>>
    /\ liquidityProviders = <<>>
    /\ fillHistory = <<>>
    /\ matching = EmptyBag
    /\ fillClock = 0
    /\ fillLast = "none"

NextFill ==
    \/ \E provider \in Providers : RegisterLiquidityProvider(provider)
    \/ \E o \in FillOrderParams : CreatePartialOrder(o)
    \/ \E k \in FillCalls, answer \in Answers : CreateResume(k, answer)
    \/ \E k \in FillCalls, answer \in Answers : QuoteResume(k, answer)
    \/ \E k \in FillCalls : ExecuteResume(k)
    \/ \E k \in FillCalls : RetryFire(k)
    \/ \E d \in FillDelays : FillElapse(d)

\* ========================================================== specifications
allVars == <<vars, shieldVars, fillVars>>

\* the three services as the application constructs them
InitAll == Init /\ InitShield /\ InitFill

Spec == InitAll /\ [][Next]_allVars

SpecRefund == InitAll /\ [][NextRefund]_allVars

SpecShield == InitAll /\ [][NextShield]_allVars

SpecFill == InitAll /\ [][NextFill]_allVars

\* ---------------------------------------------------- time without end
\* Once the clock shows more than MaxFillElapse delays can give and every
\* deadline is behind, what the program does next no longer depends on what
\* the clock shows, only on which timers are due.  Late is the passing of
\* RetryDelayMs, the longest delay, in such a state: every pending timer
\* becomes due, and the clock is left showing the same late hour.
LateHour == FillElapses(fillClock) >= MaxFillElapse

Late ==
    /\ LateHour
    /\ \A id \in FillOrderIds : UnixFill > partialOrders[id].deadline
    /\ \A k \in Creating : UnixFill > k.local.deadline
    /\ matching' = BagOfAll(LAMBDA k : [k EXCEPT !.at = fillClock - RetryDelayMs], matching)
    /\ UNCHANGED <<partialOrders, liquidityProviders, fillHistory, fillClock, fillLast>>
    /\ UNCHANGED fillFrame

NextFillLive ==
    \/ NextFill
    \/ Late

\* the oracle answers every request, every timer that is due fires, and time
\* passes
FairFill ==
    /\ WF_allVars(\E k \in FillCalls, answer \in Answers : CreateResume(k, answer))
    /\ WF_allVars(\E k \in FillCalls, answer \in Answers : QuoteResume(k, answer))
    /\ WF_allVars(\E k \in FillCalls : ExecuteResume(k))
    /\ WF_allVars(\E k \in FillCalls : RetryFire(k))
    /\ WF_allVars(\E d \in FillDelays : FillElapse(d))
    /\ WF_allVars(Late)

SpecFillLive == InitAll /\ [][NextFillLive]_allVars /\ FairFill

\* ============================================================== properties

\* the time stamp digested into a receipt hash
Stamp(hash) == hash[3][2]

\* some operation of the coordinator ends with record id refunded
RefundSucceeds(id) == Next /\ activeSwaps'[id].status = "refunded"

\* C1: a claim whose secret does not digest to the record's hashLock fails
\* with "Invalid secret", suspends no call at the signer (no transaction is
\* submitted) and leaves the registry, status and claimTxHash included,
\* unchanged; every claim suspended at the signer carries a verified secret,
\* and only the resumption of such a claim sets status to claimed or writes
\* claimTxHash.
C1_ClaimNeedsVerifiedSecret ==
    [][/\ \A id \in Stored, s \in Secrets :
             (ClaimHTLC(id, s) /\ keccak256(s) # activeSwaps[id].hashLock) =>
                 /\ last' = Outcome("claim", id, s, "Invalid secret")
                 /\ UNCHANGED <<activeSwaps, inflight>>
       /\ \A k \in BagToSet(inflight') :
             k.op = "claim" => keccak256(k.secret) = activeSwaps[k.id].hashLock
       /\ \A id \in Stored :
             (\/ activeSwaps'[id].status = "claimed" /\ activeSwaps[id].status # "claimed"
              \/ activeSwaps'[id].claimTxHash # activeSwaps[id].claimTxHash) =>
                 \E k \in Calls :
                    /\ k.op = "claim" /\ k.id = id
                    /\ keccak256(k.secret) = activeSwaps[id].hashLock
                    /\ inflight' = inflight (-) SetToBag({k})]_vars

\* a deployed keccak-locked swap, unclaimed, whose last claim was refused
C1_Witness ==
    \E id \in Stored :
       /\ last.op = "claim" /\ last.id = id /\ last.error = "Invalid secret"
       /\ activeSwaps[id].hashLock[2] = "keccak256"
       /\ last.secret # activeSwaps[id].secret
       /\ activeSwaps[id].status = "deployed"
       /\ activeSwaps[id].claimTxHash = NoHash
       /\ inflight = EmptyBag

\* C2: a record becomes claimed only from status deployed.
C2_ClaimOnlyFromDeployed ==
    [][\A id \in Stored :
          (activeSwaps'[id].status = "claimed" /\ activeSwaps[id].status # "claimed") =>
              activeSwaps[id].status = "deployed"]_vars

\* C3: whenever a record is deployed and its timelock has elapsed, the
\* coordinator has an operation that succeeds in refunding it.
C3_RefundOffered ==
    \A id \in Stored :
       (activeSwaps[id].status = "deployed" /\ UnixNow > activeSwaps[id].timelock) =>
           ENABLED RefundSucceeds(id)

\* C4: claim and refund exclude each other: a claim called with the correct
\* secret on a refunded record fails with an invalid-state error and changes
\* nothing, a refund called on a claimed record fails and changes nothing,
\* and no step moves a refunded record to claimed or a claimed one to
\* refunded.
C4_ClaimRefundExclusive ==
    [][\A id \in Stored :
          /\ \A s \in Secrets :
                (/\ activeSwaps[id].status = "refunded"
                 /\ keccak256(s) = activeSwaps[id].hashLock
                 /\ ClaimHTLC(id, s)) =>
                    /\ last' = Outcome("claim", id, s, "InvalidStateError")
                    /\ UNCHANGED <<activeSwaps, inflight>>
          /\ (activeSwaps[id].status = "claimed" /\ RefundHTLC(id)) =>
                /\ last'.error # "none"
                /\ UNCHANGED <<activeSwaps, inflight>>
          /\ activeSwaps[id].status = "refunded" => activeSwaps'[id].status # "claimed"
          /\ activeSwaps[id].status = "claimed" => activeSwaps'[id].status # "refunded"]_vars

\* C5: claimed and refunded are terminal: no step changes the status of a
\* record that is claimed or refunded.
C5_TerminalStatus ==
    [][\A id \in Stored :
          activeSwaps[id].status \in {"claimed", "refunded"} =>
              activeSwaps'[id].status = activeSwaps[id].status]_vars

\* C6: a claim issued after the record's timelock does not move a deployed
\* record to claimed.
C6_NoClaimAfterTimelock ==
    [][\A k \in Calls :
          (ClaimResume(k) /\ activeSwaps[k.id].status = "deployed"
                          /\ activeSwaps'[k.id].status = "claimed") =>
              k.at \div MsPerSec <= activeSwaps[k.id].timelock]_vars

\* C7: a claim with the correct secret on a record that is already claimed
\* is a no-op: no call is suspended at the signer for it (no further
\* transaction) and the registry is unchanged.
C7_ClaimIdempotent ==
    [][\A id \in Stored, s \in Secrets :
          (/\ activeSwaps[id].status = "claimed"
           /\ keccak256(s) = activeSwaps[id].hashLock
           /\ ClaimHTLC(id, s)) =>
              UNCHANGED <<activeSwaps, inflight>>]_vars

\* C8: a claim that was suspended at the signer while another claim of the
\* same swap performed the transition finds the record claimed when it
\* resumes and leaves it as it is.
C8_RaceLoserObserves ==
    [][\A k \in Calls :
          (/\ ClaimResume(k)
           /\ activeSwaps[k.id].status = "claimed"
           /\ k.at < Stamp(activeSwaps[k.id].claimTxHash)) =>
              activeSwaps'[k.id] = activeSwaps[k.id]]_vars

\* C9: a deploy whose lock transaction cannot be built throws to its caller,
\* suspends nothing and leaves the registry unchanged; a pending record
\* becomes deployed exactly at the resumption of a deploy call, which
\* records the receipt's hash as txHash; and a pending record has no txHash.
C9_DeployOrPending ==
    /\ [](\A id \in Stored : activeSwaps[id].status = "pending" => activeSwaps[id].txHash = NoHash)
    /\ [][\A id \in Stored :
             /\ (DeployHTLC(id) /\ ~IsBytesLike(activeSwaps[id].recipient)) =>
                   /\ last' = Outcome("deploy", id, 0, "invalid BytesLike value")
                   /\ UNCHANGED <<activeSwaps, inflight>>
             /\ \A k \in Calls :
                   (DeployResume(k) /\ k.id = id /\ activeSwaps[id].status = "pending") =>
                       /\ activeSwaps'[id].status = "deployed"
                       /\ activeSwaps'[id].txHash = keccak256(<<k.tx, DateNow>>)
                       /\ last' = Outcome("deploy", id, 0, "none")
             /\ (activeSwaps[id].status = "pending" /\ activeSwaps'[id].status = "deployed") =>
                   \E k \in Calls : k.op = "deploy" /\ k.id = id /\ DeployResume(k)]_vars

\* a pending record whose deploy has just failed, and can be called again
C9_Witness ==
    \E id \in Stored :
       /\ last = Outcome("deploy", id, 0, "invalid BytesLike value")
       /\ activeSwaps[id].status = "pending"
       /\ activeSwaps[id].txHash = NoHash
       /\ ENABLED DeployHTLC(id)

\* C10: monitor reports canClaim = (status = deployed) and
\* canRefund = (status = deployed and now > timelock).
C10_MonitorFlags ==
    \A id \in Stored :
       LET view == monitorSwap(activeSwaps[id])
       IN /\ view.canClaim = (activeSwaps[id].status = "deployed")
          /\ view.canRefund = (activeSwaps[id].status = "deployed" /\ UnixNow > activeSwaps[id].timelock)

\* C11: createHTLCParams called with an unsupported source or destination
\* chain type fails with the unsupported-chain error and adds no record.
C11_UnsupportedChainRejected ==
    [][\A f \in Chains, t \in Chains, a \in Amounts, r \in Recipients, tl \in TimelockChoices :
          (/\ CreateHTLCParams(f, t, a, r, tl)
           /\ (f.type \notin SupportedTypes \/ t.type \notin SupportedTypes)) =>
              /\ last' = Outcome("create", 0, 0, "Unsupported chain type")
              /\ UNCHANGED activeSwaps]_vars

\* C12: every record createHTLCParams stores is pending and its absolute
\* timelock is strictly later than the time of its creation.
C12_TimelockInFuture ==
    [][\A id \in DOMAIN activeSwaps' :
          id \notin Stored =>
             /\ activeSwaps'[id].status = "pending"
             /\ activeSwaps'[id].timelock > UnixNow]_vars

\* C13: while a swap is pending or deployed, nothing a reader obtains from
\* getSwap, getActiveSwaps or monitorSwap carries the secret.
C13_SecretHidden ==
    \A id \in Stored :
       activeSwaps[id].status \in {"pending", "deployed"} =>
          /\ "secret" \notin Readable(getSwap(id))
          /\ \A swap \in getActiveSwaps :
                swap.swapId = id => "secret" \notin Readable(swap)
          /\ "secret" \notin Readable(monitorSwap(activeSwaps[id]))

\* the status and the commit time of the order with this id
StatusOf(id) == pendingCommits[id].status

CommitTime(id) == pendingCommits[id].timestamp

\* how often id occurs in a sequence of order ids
Occurrences(seq, id) == Cardinality({i \in DOMAIN seq : seq[i] = id})

\* the order params of a commit with another minAmountOut
Tampered(orderParams) ==
    {o \in OrderParams : o.minAmountOut # orderParams.minAmountOut
                         /\ [o EXCEPT !.minAmountOut = orderParams.minAmountOut] = orderParams}

\* C14: a reveal of a stored commitment with order params and nonce whose
\* digest is not that commitment fails with the commitment-mismatch error and
\* leaves every order's status and the current batch unchanged.
C14_MismatchRejected ==
    [][\A c \in Commitments, o \in OrderParams, n \in Nonces :
          (Lookup(c) # 0 /\ Commitment(o, n) # c /\ RevealOrder(c, o, n)) =>
              /\ shieldLast' = ShieldOutcome("reveal", Lookup(c), "Invalid reveal - commitment mismatch")
              /\ UNCHANGED <<pendingCommits, currentBatch>>]_shieldVars

\* a committed order outside the batch whose last reveal was refused, and for
\* which a reveal with the right nonce and a tampered minAmountOut is refused
C14_Witness ==
    \E id \in OrderIds :
       /\ shieldLast = ShieldOutcome("reveal", id, "Invalid reveal - commitment mismatch")
       /\ StatusOf(id) = "committed"
       /\ Occurrences(currentBatch, id) = 0
       /\ \E o \in Tampered(pendingCommits[id].orderParams) :
             ENABLED (/\ RevealOrder(pendingCommits[id].commitment, o, pendingCommits[id].nonce)
                      /\ shieldLast'.error = "Invalid reveal - commitment mismatch"
                      /\ UNCHANGED <<pendingCommits, currentBatch>>)

\* C15: an order's status changes only committed -> revealed,
\* revealed -> executed and revealed -> failed, and an order is appended to
\* the current batch only when it is committed.
C15_OrderLifecycle ==
    [][\A id \in OrderIds :
          /\ StatusOf(id)' # StatusOf(id) =>
                <<StatusOf(id), StatusOf(id)'>> \in
                    {<<"committed", "revealed">>, <<"revealed", "executed">>, <<"revealed", "failed">>}
          /\ Occurrences(currentBatch', id) > Occurrences(currentBatch, id) =>
                StatusOf(id) = "committed"]_shieldVars

\* C16: a pass holds the orders of the batch it was called on in
\* non-decreasing order of commit time, and executes them one at a time in
\* that order.
C16_BatchFifo ==
    /\ [](\A p \in Passes : \A a, b \in DOMAIN p.orders :
             a < b => CommitTime(p.orders[a]) <= CommitTime(p.orders[b]))
    /\ [][/\ (ProcessBatch /\ currentBatch # <<>>) =>
                \E p \in BagToSet(running') :
                   /\ running' = running (+) SetToBag({p})
                   /\ p.i = 1
                   /\ \A id \in OrderIds : Occurrences(p.orders, id) = Occurrences(currentBatch, id)
          /\ \A p \in Passes, id \in OrderIds :
                StatusOf(id)' \in {"executed", "failed"} /\ pendingCommits'[id] # pendingCommits[id]
                /\ running' = (running (-) SetToBag({p}))
                                 (+) (IF p.i < Len(p.orders) THEN SetToBag({[p EXCEPT !.i = p.i + 1, !.at = clock]}) ELSE EmptyBag)
                /\ running' # running
                   => id = p.orders[p.i]]_shieldVars

\* a pass over two orders that were revealed in the reverse of their commit
\* order, the earlier committed one executed and the later one under way
C16_Witness ==
    \E p \in Passes :
       /\ Len(p.orders) = 2 /\ p.i = 2
       /\ CommitTime(p.orders[1]) < CommitTime(p.orders[2])
       /\ currentBatch = <<p.orders[2], p.orders[1]>>
       /\ StatusOf(p.orders[1]) \in {"executed", "failed"}
       /\ StatusOf(p.orders[2]) = "revealed"

\* C17: in a pass, an order whose output is below its minAmountOut is
\* marked failed and no other order changes; the pass goes on to the next
\* order; and when the pass ends the batch is empty and every order the pass
\* held or the batch held is executed or failed.
C17_FailureIsolated ==
    [][\A p \in Passes, out \in UNION {AmountsOut(a) : a \in AmountsIn} :
          ProcessBatchResume(p, out) =>
             /\ StatusOf(p.orders[p.i])' =
                   IF out < pendingCommits[p.orders[p.i]].orderParams.minAmountOut
                   THEN "failed" ELSE "executed"
             /\ \A id \in OrderIds \ {p.orders[p.i]} : pendingCommits'[id] = pendingCommits[id]
             /\ p.i < Len(p.orders) => Pass(p.orders, p.i + 1) \in BagToSet(running')
             /\ p.i = Len(p.orders) =>
                   /\ currentBatch' = <<>>
                   /\ \A id \in OrderIds :
                         Occurrences(p.orders, id) + Occurrences(currentBatch, id) > 0 =>
                            StatusOf(id)' \in {"executed", "failed"}]_shieldVars

\* C18: an order is accepted into the batch only up to its reveal deadline.
C18_RevealDeadlineEnforced ==
    [][\A id \in OrderIds :
          Occurrences(currentBatch', id) > Occurrences(currentBatch, id) =>
             clock <= RevealDeadline(pendingCommits[id])]_shieldVars

\* the sum of amountIn over a sequence of fills
RECURSIVE SumAmountIn(_)
SumAmountIn(fills) ==
    IF fills = <<>> THEN 0 ELSE fills[1].amountIn.n + SumAmountIn(Tail(fills))

\* a step of the matcher on the order of call k
MatcherStep(k) ==
    \/ \E answer \in Answers : QuoteResume(k, answer)
    \/ ExecuteResume(k)
    \/ RetryFire(k)

\* C19: for every partial order, in every state, the sum of amountIn over
\* its fills plus remainingAmountIn is totalAmountIn.
C19_Conservation ==
    \A id \in FillOrderIds :
       SumAmountIn(partialOrders[id].fills) + partialOrders[id].remainingAmountIn.n
          = partialOrders[id].totalAmountIn.n

\* C20: a step of the matcher taken after the order's deadline that leaves
\* a remainder leaves the order expired, and getOrderStatus reports expired.
C20_ExpiredReported ==
    [][\A k \in FillCalls :
          (/\ k.op \in {"quote", "execute", "retry"}
           /\ UnixFill > partialOrders[k.orderId].deadline
           /\ MatcherStep(k)
           /\ partialOrders'[k.orderId].remainingAmountIn.n > 0) =>
              /\ partialOrders'[k.orderId].status = "expired"
              /\ getOrderStatus(k.orderId)'.status = "expired"]_fillVars

\* order id has reached a terminal status and no call of the matcher is
\* pending for it
Settled(id) ==
    /\ id \in FillOrderIds
    /\ partialOrders[id].status \in {"completed", "expired"}
    /\ \A k \in FillCalls : k.orderId # id

\* C21: every partial order that is stored eventually has a terminal status
\* and no pending call of the matcher.
C21_MatchingTerminates ==
    \A id \in 1..MaxFillOrders : [](id \in FillOrderIds => <>Settled(id))

\* C22: a completed order has remainingAmountIn at or below the floor and
\* no pending call of the matcher, and no step changes a completed order
\* (its fills, its remainingAmountIn, its status) or schedules the matcher
\* for it.
C22_CompletedTerminal ==
    /\ [](\A id \in FillOrderIds :
             partialOrders[id].status = "completed" =>
                /\ partialOrders[id].remainingAmountIn.n <= MinFillEther * UnitsPerEther
                /\ \A k \in FillCalls : k.orderId # id)
    /\ [][\A id \in FillOrderIds :
             partialOrders[id].status = "completed" =>
                /\ partialOrders'[id] = partialOrders[id]
                /\ \A k \in BagToSet(matching') : k.orderId # id]_fillVars

\* an order completed by a fill, a retry delay after that fill was executed
C22_Witness ==
    \E id \in FillOrderIds :
       /\ partialOrders[id].status = "completed"
       /\ Len(partialOrders[id].fills) > 0
       /\ \A i \in DOMAIN partialOrders[id].fills :
             fillClock >= partialOrders[id].fills[i].timestamp + SwapDelayMs + RetryDelayMs

\* C23: when the quote of a fill attempt shows a price impact above the
\* order's maxSlippage, the step that receives it changes no order (fills,
\* remainingAmountIn), no provider (totalFills, totalVolume) and not the
\* fill history, and starts no execution for the order.
C23_SlippageRejectionFrame ==
    [][\A k \in FillCalls, answer \in Answers :
          (/\ QuoteResume(k, answer)
           /\ answer.ok
           /\ LET order == partialOrders[k.orderId]
                  diff == IF answer.rate > order.currentPrice
                          THEN answer.rate - order.currentPrice
                          ELSE order.currentPrice - answer.rate
              IN diff * 100 > order.maxSlippage * order.currentPrice)
          => /\ UNCHANGED <<partialOrders, liquidityProviders, fillHistory>>
             /\ \A c \in BagToSet(matching') :
                   c.orderId = k.orderId => c.op # "execute"]_fillVars

\* an attempt has just been rejected for its price impact
C23_Witness ==
    /\ fillLast = "Fill rejected"
    /\ \E id \in FillOrderIds :
          /\ partialOrders[id].status = "open"
          /\ \E k \in FillCalls : k.orderId = id /\ k.op \in {"quote", "retry"}

\* what C24 asks of the size of a fill of remaining units by a provider of
\* the given maxFillSize, in ether
SizedRight(size, maxFillSize, remaining) ==
    LET floor == MinFillEther * UnitsPerEther
        cap == maxFillSize * UnitsPerEther
        smaller == IF cap < remaining THEN cap ELSE remaining
    IN /\ size = (IF smaller < floor THEN floor ELSE smaller)
       /\ floor <= size
       /\ size <= remaining

\* C24: the size of every fill attempt that goes on to a quote, and of
\* every fill under execution, is min(maxFillSize, remainingAmountIn) raised
\* to the floor, at least the floor and at most remainingAmountIn; every
\* fill an order receives is the fill of such an execution, and no stored
\* fill is below the floor.
C24_FillSize ==
    /\ [](\A k \in FillCalls :
             k.op \in {"quote", "execute"} =>
                SizedRight(IF k.op = "quote" THEN k.local.n ELSE k.local.amountIn.n,
                           liquidityProviders[k.lps[k.j]].maxFillSize,
                           partialOrders[k.orderId].remainingAmountIn.n))
    /\ [](\A i \in DOMAIN fillHistory :
             fillHistory[i].amountIn.n >= MinFillEther * UnitsPerEther)
    /\ [][\A id \in FillOrderIds :
             partialOrders'[id].fills # partialOrders[id].fills =>
                \E k \in FillCalls :
                   /\ k.op = "execute" /\ k.orderId = id
                   /\ partialOrders'[id].fills = Append(partialOrders[id].fills, k.local)
                   /\ fillHistory' = Append(fillHistory, k.local)]_fillVars

\* an accepted fill that was raised to the floor: its provider's maxFillSize
\* is below the floor
C24_Witness ==
    \E i \in DOMAIN fillHistory :
       LET fill == fillHistory[i]
           lp == liquidityProviders[fill.providerId]
       IN /\ fill.amountIn.n = MinFillEther * UnitsPerEther
          /\ lp.maxFillSize < MinFillEther
          /\ fill \in {partialOrders[fill.orderId].fills[j] :
                          j \in DOMAIN partialOrders[fill.orderId].fills}

\* the orders pass p has still to execute
Ahead(p) == {p.orders[i] : i \in p.i..Len(p.orders)}

\* C25: an order whose status is revealed is in the current batch or among
\* the orders a running pass has still to execute, so that some pass
\* executes or fails it; an order revealed while a pass is suspended is not
\* dropped when the pass clears the batch.
C25_NoRevealedOrderLost ==
    \A id \in OrderIds :
       StatusOf(id) = "revealed" =>
          \/ Occurrences(currentBatch, id) > 0
          \/ \E p \in Passes : id \in Ahead(p)

\* C26: a pass executes an order only when no pass has executed or failed
\* it before: the order it resumes on is still revealed.
C26_ExecutedAtMostOnce ==
    [][\A p \in Passes, out \in UNION {AmountsOut(a) : a \in AmountsIn} :
          ProcessBatchResume(p, out) => StatusOf(p.orders[p.i]) = "revealed"]_shieldVars

\* C27: for every chain family, a deployed record can be claimed with its
\* own secret: the digest claimHTLC computes of the secret is the record's
\* hashLock, and the claim with that secret gets past the secret check.
C27_HashLockRoundTrip ==
    \A id \in Stored :
       activeSwaps[id].status = "deployed" =>
          /\ keccak256(activeSwaps[id].secret) = activeSwaps[id].hashLock
          /\ BagCardinality(inflight) < MaxInFlight =>
                ENABLED (/\ ClaimHTLC(id, activeSwaps[id].secret)
                         /\ inflight' # inflight)

\* C28: a reveal called with the commitment createCommitment returned, the
\* committed orderParams and the nonce property of the returned object is
\* accepted: the order becomes revealed and is appended to the batch.
C28_RevealFromCommitReturn ==
    [][\A id \in OrderIds :
          LET returned == CommitReturn(pendingCommits[id])
          IN RevealOrder(Get(returned, "commitment"), pendingCommits[id].orderParams,
                         Get(returned, "nonce")) =>
                /\ shieldLast'.error = "none"
                /\ StatusOf(id)' = "revealed"
                /\ currentBatch' = Append(currentBatch, id)]_shieldVars

\* C29: every fill an order receives has a timestamp at or before the
\* order's deadline, and no step taken after the deadline changes the
\* order's remainingAmountIn.
C29_NoFillAfterDeadline ==
    [][\A id \in FillOrderIds :
          /\ \A i \in DOMAIN partialOrders'[id].fills \ DOMAIN partialOrders[id].fills :
                partialOrders'[id].fills[i].timestamp \div MsPerSec <= partialOrders[id].deadline
          /\ fillClock \div MsPerSec > partialOrders[id].deadline =>
                partialOrders'[id].remainingAmountIn = partialOrders[id].remainingAmountIn]_fillVars

====
